---- MODULE Spec2Model ----
(***************************************************************************)
(* chaoscraft portal: the payment-to-queue pipeline.                       *)
(*                                                                         *)
(*   submit            apps/portal/app/api/submit/route.ts                 *)
(*   card webhook      apps/portal/app/api/payment/stripe-webhook/route.ts *)
(*   token verifier    apps/portal/app/api/payment/solana/route.ts         *)
(*   store             lib/db (payments and requests tables)               *)
(*                                                                         *)
(* Every `await` of a handler is a point where another request handler may *)
(* run, so a handler is a sequence of atomic steps, one per stretch of     *)
(* code between two awaits that touches the store or the issue tracker.    *)
(***************************************************************************)
EXTENDS Integers, Sequences, FiniteSets, TLC

(***************************************************************************)
(* Bounds of the model.                                                    *)
(***************************************************************************)
MaxPayments == 2      \* rows the payments table may hold
MaxCalls == 2         \* webhook / verify calls in flight at the same time
MaxIssues == 2        \* issues the tracker accepts
MaxQueue == 3         \* issues the tracker returns to one queue call
MaxFiles == 3         \* files of a pull request

VARIABLES
  payments,     \* payments table: sequence of rows, row i has id i
  requests,     \* requests table: sequence of rows
  issues,       \* issues of the tracker, in creation order
  sessions,     \* checkout sessions created at the card gateway
  calls,        \* the webhook / verify calls and the sync runs in flight, by slot
  antfarm,      \* the AntFarm workflow runs that have exited
  response      \* the response the latest step has sent, if any

vars == <<payments, requests, issues, sessions, calls, antfarm, response>>

\* NULL of a text column, of a number column, and the undefined of a lookup
NULL == "NULL"
NoNumber == 0
Undefined == [undefined |-> TRUE]

\* no response is sent by a step that does not end its call
NoResponse == [route |-> "", status |-> 0, log |-> ""]

----------------------------------------------------------------------------
(***************************************************************************)
(* Request texts.  A text is lead whitespace characters, then body         *)
(* characters that start and end with a non-whitespace character, then     *)
(* trail whitespace characters.  The missing and the empty text are both   *)
(* Text(0, 0, 0): both are falsy in `!body.request`.                       *)
(***************************************************************************)
Text(l, b, t) == [lead |-> l, body |-> b, trail |-> t]

TextLength(s) == s.lead + s.body + s.trail

\* String.prototype.trim: drops the leading and the trailing whitespace
Trim(s) == Text(0, s.body, 0)

maxRequestLength == 120

ShortText == Text(1, 4, 0)
LongText == Text(0, 120, 0)

ValidTexts == {ShortText, LongText}

SubmitTexts == ValidTexts \cup {Text(0, 0, 0), Text(2, 0, 0), Text(0, 121, 0), Text(1, 120, 0)}

Tiers == {"standard", "priority", "express"}

\* the tier and the transaction signatures of the calls of the whole pipeline
PipelineTiers == {"express"}

PipelineSignatures == {"sigPaid", "sigMissing"}

SubmitPriorities == Tiers \cup {"urgent"}

Methods == {"stripe", "solana"}

SubmitMethods == Methods \cup {"paypal"}

----------------------------------------------------------------------------
(***************************************************************************)
(* Pricing.                                                                *)
(***************************************************************************)
\* shared PRICING table: the price of a tier in dollars
PRICING == [standard |-> 1, priority |-> 5, express |-> 10]

\* getPricing with one price for every tier
getPricing_Flat(priority) == 100

\* getPricing of the submit route
getPricing(priority) ==
  CASE priority = "express" -> 1000
    [] priority = "priority" -> 500
    [] OTHER -> 100

\* a call of getPricing on its own: it returns for every input, it has no
\* path that throws
Price(priority) ==
  /\ response' = [route |-> "getPricing", status |-> 0, log |-> "",
                  priority |-> priority, threw |-> FALSE,
                  amount |-> getPricing(priority)]
  /\ UNCHANGED <<payments, requests, issues, sessions, calls, antfarm>>

\* const amountInCents = amount * 100
amountInCents(priority) == getPricing(priority) * 100

----------------------------------------------------------------------------
(***************************************************************************)
(* The store.                                                              *)
(***************************************************************************)
\* `stripe_pending_${Date.now()}`, as a sequence of tokens
PendingRef == <<"stripe", "_", "pending", "_", "now">>

\* the row of INSERT INTO payments (payment_id, amount, currency,
\* payment_method, priority, status); issue_number and verified_at get no value
NewPayment(priority, method) ==
  [ payment_id |-> PendingRef,
    amount |-> amountInCents(priority),
    currency |-> "usd",
    payment_method |-> method,
    priority |-> priority,
    status |-> "pending",
    issue_number |-> NoNumber,
    verified_at |-> NULL ]

\* queryOne('SELECT * FROM payments WHERE id = ?'): the columns of the row
\* that the handlers read, or undefined
SelectPayment(id) ==
  IF id \in DOMAIN payments
  THEN [status |-> payments[id].status, amount |-> payments[id].amount]
  ELSE Undefined

\* UPDATE payments SET ... WHERE id = ?: no row matches an absent id
UpdatePayment(id, row) ==
  IF id \in DOMAIN payments THEN [payments EXCEPT ![id] = row] ELSE payments

\* Number.prototype.toString, as the sequence of decimal digits
RECURSIVE toString(_)
toString(n) == IF n < 10 THEN <<n>> ELSE toString(n \div 10) \o <<n % 10>>

\* parseInt of a sequence of decimal digits
RECURSIVE parseInt(_)
parseInt(ds) ==
  IF Len(ds) = 1 THEN ds[1]
  ELSE 10 * parseInt(SubSeq(ds, 1, Len(ds) - 1)) + ds[Len(ds)]

\* the checkout session of stripe.checkout.sessions.create and the state the
\* gateway keeps of it: open, then complete (paid) or expired
NewSession(id, text, priority) ==
  [ unit_amount |-> amountInCents(priority),
    metadata |-> [paymentDbId |-> toString(id), request |-> text, priority |-> priority],
    status |-> "open" ]

----------------------------------------------------------------------------
(***************************************************************************)
(* submit: POST /api/submit                                                *)
(***************************************************************************)
\* SubmitError without the check of the length of the text
SubmitError_NoLengthCheck(text, priority, method) ==
  CASE TextLength(text) = 0 \/ TextLength(Trim(text)) = 0 -> "Request text is required"
    [] priority \notin Tiers -> "Invalid priority"
    [] method \notin Methods -> "Invalid payment method"
    [] OTHER -> NULL

\* the four validation checks of the submit route, in order
SubmitError(text, priority, method) ==
  CASE TextLength(text) = 0 \/ TextLength(Trim(text)) = 0 -> "Request text is required"
    [] TextLength(text) > maxRequestLength -> "Request must be 120 characters or less"
    [] priority \notin Tiers -> "Invalid priority"
    [] method \notin Methods -> "Invalid payment method"
    [] OTHER -> NULL

SubmitResponse(status) == [route |-> "submit", status |-> status, log |-> ""]

\* storeOk: the store accepts the INSERT, otherwise run() throws (the
\* statement binds five values to six placeholders and gives issue_number,
\* which is NOT NULL, no value: a store that checks either rejects it);
\* gatewayOk: stripe.checkout.sessions.create resolves (otherwise it throws)
Submit(text, priority, method, storeOk, gatewayOk) ==
  LET err == SubmitError(text, priority, method)
      id == Len(payments) + 1
  IN
  /\ UNCHANGED <<requests, issues, calls, antfarm>>
  /\ IF err # NULL
     THEN /\ response' = SubmitResponse(400)
          /\ UNCHANGED <<payments, sessions>>
     ELSE IF ~storeOk
     THEN /\ response' = SubmitResponse(500)
          /\ UNCHANGED <<payments, sessions>>
     ELSE /\ Len(payments) < MaxPayments
          /\ payments' = Append(payments, NewPayment(priority, method))
          /\ IF method = "stripe"
             THEN IF gatewayOk
                  THEN /\ sessions' = Append(sessions, NewSession(id, text, priority))
                       /\ response' = SubmitResponse(200)
                  ELSE /\ UNCHANGED sessions
                       /\ response' = SubmitResponse(500)
             ELSE /\ UNCHANGED sessions
                  /\ response' = SubmitResponse(200)

----------------------------------------------------------------------------
(***************************************************************************)
(* Calls in flight.                                                        *)
(***************************************************************************)
IdleCall == [pc |-> "idle"]

Free(c) == calls[c].pc = "idle"

\* the value of a call that answers: the route, the status of the response
\* and what the handler has logged on its way out
Done(route, status, log) == [pc |-> "done", route |-> route, status |-> status, log |-> log]

StripeDone(status, log) == Done("stripe-webhook", status, log)

SolanaDone(status, log) == Done("solana", status, log)

\* call c goes on as `call`, or answers and leaves its slot
Proceed(c, call) ==
  IF call.pc = "done"
  THEN /\ calls' = [calls EXCEPT ![c] = IdleCall]
       /\ response' = [route |-> call.route, status |-> call.status, log |-> call.log]
  ELSE /\ calls' = [calls EXCEPT ![c] = call]
       /\ response' = NoResponse

\* a new call takes the first free slot (which slot holds a call has no
\* meaning to the program)
FirstFree(c) == Free(c) /\ \A d \in 1..(c - 1) : ~Free(d)

----------------------------------------------------------------------------
(***************************************************************************)
(* The issue tracker and the dispatcher.                                   *)
(***************************************************************************)
\* labels: ['ready-for-build', priority === 'standard' ? '' : `priority:${priority}`].filter(Boolean)
IssueLabels(priority) ==
  {"ready-for-build"} \cup (IF priority = "standard" THEN {} ELSE {"priority:" \o priority})

\* octokit.rest.issues.create: the issue the tracker creates; paymentDbId is
\* the payment createIssueAndUpdateDb was called for
NewIssue(paymentDbId, requestText, priority) ==
  [ number |-> Len(issues) + 1,
    title |-> requestText,
    labels |-> IssueLabels(priority),
    paymentDbId |-> paymentDbId ]

\* createIssueAndUpdateDb up to its second await: the issue is created and
\* UPDATE payments SET issue_number = ? WHERE id = ? has run
createIssue(c, next) ==
  LET call == calls[c]
      issue == NewIssue(call.paymentDbId, call.requestText, call.priority)
  IN
  /\ Len(issues) < MaxIssues
  /\ issues' = Append(issues, issue)
  /\ payments' = IF call.paymentDbId \in DOMAIN payments
                 THEN [payments EXCEPT ![call.paymentDbId].issue_number = issue.number]
                 ELSE payments
  /\ Proceed(c,
                 [pc |-> next, paymentDbId |-> call.paymentDbId,
                  issue_number |-> issue.number,
                  requestText |-> call.requestText, priority |-> call.priority])

\* createIssueAndUpdateDb from its second await on:
\* INSERT INTO requests (issue_number, request_text, priority)
insertRequest(c) ==
  LET call == calls[c] IN
  requests' = Append(requests,
                [issue_number |-> call.issue_number,
                 request_text |-> call.requestText,
                 priority |-> call.priority])

----------------------------------------------------------------------------
(***************************************************************************)
(* Card webhook: POST /api/payment/stripe-webhook                          *)
(***************************************************************************)
IntentIds == {<<"pi", "_", "1">>}

\* s LIKE '%' || t || '%' on token sequences
Like(s, t) ==
  \E i \in 0..(Len(s) - Len(t)) : SubSeq(s, i + 1, i + Len(t)) = t

\* the events the gateway signs: session events of the sessions of this
\* program (by index) or of a session without metadata (index 0), payment
\* intent failures, and events of other types
SessionEvents ==
  { [type |-> t, payment_status |-> ps, session |-> k] :
      t \in {"checkout.session.completed"}, ps \in {"paid", "unpaid"},
      k \in 0..Len(sessions) }
  \cup
  { [type |-> "checkout.session.expired", payment_status |-> "unpaid", session |-> k] :
      k \in 0..Len(sessions) }

OtherEvents ==
  { [type |-> "payment_intent.payment_failed", id |-> i] : i \in IntentIds }
  \cup { [type |-> "charge.refunded"] }

\* the gateway sends `completed, paid` for a session that is or becomes
\* complete, and `expired` for a session that is or becomes expired
Deliverable(ev) ==
  IF ev \notin SessionEvents THEN TRUE
  ELSE IF ev.session = 0 THEN TRUE
  ELSE LET st == sessions[ev.session].status IN
       CASE ev.type = "checkout.session.expired" -> st \in {"open", "expired"}
         [] ev.payment_status = "paid" -> st \in {"open", "complete"}
         [] OTHER -> st = "open"

SessionsAfter(ev) ==
  IF ev \notin SessionEvents THEN sessions
  ELSE IF ev.session # 0
  THEN IF ev.type = "checkout.session.expired"
       THEN [sessions EXCEPT ![ev.session].status = "expired"]
       ELSE IF ev.payment_status = "paid"
       THEN [sessions EXCEPT ![ev.session].status = "complete"]
       ELSE sessions
  ELSE sessions

\* session.metadata of the event's session
Metadata(ev) == IF ev.session = 0 THEN Undefined ELSE sessions[ev.session].metadata

\* parseInt(session.metadata?.paymentDbId || '0')
EventPaymentDbId(ev) ==
  LET m == Metadata(ev) IN parseInt(IF m = Undefined THEN <<0>> ELSE m.paymentDbId)

\* session.metadata?.request || ''
EventRequest(ev) ==
  LET m == Metadata(ev) IN
  IF m = Undefined THEN Text(0, 0, 0)
  ELSE IF TextLength(m.request) = 0 THEN Text(0, 0, 0) ELSE m.request

\* session.metadata?.priority || 'standard'
EventPriority(ev) ==
  LET m == Metadata(ev) IN IF m = Undefined THEN "standard" ELSE m.priority

\* verifyStripeSignature that accepts every payload
verifyStripeSignature_AcceptAll(signed) == TRUE

\* verifyStripeSignature: stripe.webhooks.constructEvent accepts exactly the
\* payloads that carry a signature of the gateway
verifyStripeSignature(signed) == signed

\* completedCall without the return for an already verified payment
completedCall_NoVerifiedCheck(ev) ==
  LET paymentDbId == EventPaymentDbId(ev)
      existingPayment == SelectPayment(paymentDbId)
  IN
  IF ev.payment_status # "paid" THEN StripeDone(200, "")
  ELSE IF existingPayment = Undefined
  THEN StripeDone(404, "Payment not found in database")
  ELSE [pc |-> "stripe_verifying",
        paymentDbId |-> paymentDbId,
        requestText |-> EventRequest(ev),
        priority |-> EventPriority(ev)]

\* completedCall without the return for a payment that has no row
completedCall_NoNotFoundCheck(ev) ==
  LET paymentDbId == EventPaymentDbId(ev)
      existingPayment == SelectPayment(paymentDbId)
  IN
  IF ev.payment_status # "paid" THEN StripeDone(200, "")
  ELSE IF existingPayment # Undefined /\ existingPayment.status = "verified"
  THEN StripeDone(200, "Payment already verified, skipping issue creation")
  ELSE [pc |-> "stripe_verifying",
        paymentDbId |-> paymentDbId,
        requestText |-> EventRequest(ev),
        priority |-> EventPriority(ev)]

\* completedCall without the test of session.payment_status
completedCall_NoPaidCheck(ev) ==
  LET paymentDbId == EventPaymentDbId(ev)
      existingPayment == SelectPayment(paymentDbId)
  IN
  IF existingPayment = Undefined
  THEN StripeDone(404, "Payment not found in database")
  ELSE IF existingPayment.status = "verified"
  THEN StripeDone(200, "Payment already verified, skipping issue creation")
  ELSE [pc |-> "stripe_verifying",
        paymentDbId |-> paymentDbId,
        requestText |-> EventRequest(ev),
        priority |-> EventPriority(ev)]

\* case 'checkout.session.completed': what the call does once the SELECT has
\* answered, an answer or going on to mark the payment verified
completedCall(ev) ==
  LET paymentDbId == EventPaymentDbId(ev)
      existingPayment == SelectPayment(paymentDbId)
  IN
  IF ev.payment_status # "paid" THEN StripeDone(200, "")
  ELSE IF existingPayment = Undefined
  THEN StripeDone(404, "Payment not found in database")
  ELSE IF existingPayment.status = "verified"
  THEN StripeDone(200, "Payment already verified, skipping issue creation")
  ELSE [pc |-> "stripe_verifying",
        paymentDbId |-> paymentDbId,
        requestText |-> EventRequest(ev),
        priority |-> EventPriority(ev)]

\* POST up to the UPDATE that marks the payment verified: the signature
\* check, the switch on event.type, and for `completed, paid` the SELECT with
\* the two returns its result decides.  The await of the SELECT ends the step:
\* the UPDATE runs in a later step, on the status this step has read.
StripeWebhook(c, signed, ev) ==
  /\ FirstFree(c)
  /\ UNCHANGED <<requests, issues, antfarm>>
  /\ IF ~verifyStripeSignature(signed)
     THEN /\ Proceed(c, StripeDone(401, "Webhook signature verification failed"))
          /\ UNCHANGED <<payments, sessions>>
     ELSE
     /\ Deliverable(ev)
     /\ sessions' = SessionsAfter(ev)
     /\ CASE ev.type = "checkout.session.completed" ->
               /\ UNCHANGED payments
               /\ Proceed(c, completedCall(ev))
          [] ev.type = "checkout.session.expired" ->
               LET paymentDbId == EventPaymentDbId(ev) IN
               /\ payments' = IF paymentDbId > 0 /\ paymentDbId \in DOMAIN payments
                              THEN [payments EXCEPT ![paymentDbId].status = "expired"]
                              ELSE payments
               /\ Proceed(c, StripeDone(200, ""))
          [] ev.type = "payment_intent.payment_failed" ->
               LET found == { i \in DOMAIN payments : Like(payments[i].payment_id, ev.id) } IN
               /\ payments' = IF found # {}
                              THEN LET i == CHOOSE i \in found : \A j \in found : i <= j
                                   IN [payments EXCEPT ![i].status = "failed"]
                              ELSE payments
               /\ Proceed(c, StripeDone(200, ""))
          [] OTHER ->
               /\ Proceed(c, StripeDone(200, "Unhandled event type"))
               /\ UNCHANGED payments

\* StripeMarkVerified with an UPDATE that has no WHERE clause
StripeMarkVerified_EveryRow(c) ==
  LET call == calls[c] IN
  /\ call.pc = "stripe_verifying"
  /\ UNCHANGED <<requests, issues, sessions, antfarm>>
  /\ payments' = [p \in DOMAIN payments |->
                   [payments[p] EXCEPT !.status = "verified", !.verified_at = "now"]]
  /\ Proceed(c, [call EXCEPT !.pc = "stripe_creating"])

\* UPDATE payments SET status = 'verified', verified_at = now WHERE id = ?
StripeMarkVerified(c) ==
  LET call == calls[c] IN
  /\ call.pc = "stripe_verifying"
  /\ UNCHANGED <<requests, issues, sessions, antfarm>>
  /\ payments' = [payments EXCEPT ![call.paymentDbId].status = "verified",
                                  ![call.paymentDbId].verified_at = "now"]
  /\ Proceed(c, [call EXCEPT !.pc = "stripe_creating"])

\* createIssueAndUpdateDb: the issue is created and linked to the payment
StripeCreateIssue(c) ==
  /\ calls[c].pc = "stripe_creating"
  /\ createIssue(c, "stripe_inserting")
  /\ UNCHANGED <<requests, sessions, antfarm>>

\* StripeCreateIssueFails with a catch that marks the payment failed
StripeCreateIssueFails_MarksFailed(c) ==
  /\ calls[c].pc = "stripe_creating"
  /\ Proceed(c, StripeDone(500, "Webhook error"))
  /\ payments' = [payments EXCEPT ![calls[c].paymentDbId].status = "failed"]
  /\ UNCHANGED <<requests, issues, sessions, antfarm>>

\* octokit.rest.issues.create rejects: POST's catch answers 500
StripeCreateIssueFails(c) ==
  /\ calls[c].pc = "stripe_creating"
  /\ Proceed(c, StripeDone(500, "Webhook error"))
  /\ UNCHANGED <<payments, requests, issues, sessions, antfarm>>

\* the request row is inserted and POST answers { received: true }
StripeInsertRequest(c) ==
  /\ calls[c].pc = "stripe_inserting"
  /\ insertRequest(c)
  /\ Proceed(c, StripeDone(200, "Payment verified and Issue created"))
  /\ UNCHANGED <<payments, issues, sessions, antfarm>>

----------------------------------------------------------------------------
(***************************************************************************)
(* Token verifier: POST /api/payment/solana                                *)
(***************************************************************************)
\* process.env.SOLANA_WALLET_ADDRESS
walletAddress == "wallet"

\* String.prototype.toLowerCase on the addresses of the model
toLowerCase(a) ==
  CASE a = "Wallet" -> "wallet"
    [] a = "Other" -> "other"
    [] OTHER -> a

\* the transactions of the chain by signature: the result of
\* connection.getParsedTransaction (null when there is none).  The amount is
\* what the transfer moves: 1000 is what POST expects of an express payment
\* (payment.amount / 100).
Transaction(signature) ==
  CASE signature = "sigPaid" ->
         [err |-> FALSE, instructions |-> 1,
          accountKeys |-> <<"payer", "sender", "wallet">>, amount |-> 1000]
    [] signature = "sigSmall" ->
         [err |-> FALSE, instructions |-> 1,
          accountKeys |-> <<"payer", "sender", "wallet">>, amount |-> 1]
    [] signature = "sigCase" ->
         [err |-> FALSE, instructions |-> 1,
          accountKeys |-> <<"payer", "sender", "Wallet">>, amount |-> 1000]
    [] signature = "sigOther" ->
         [err |-> FALSE, instructions |-> 1,
          accountKeys |-> <<"payer", "sender", "Other">>, amount |-> 1000]
    [] signature = "sigShort" ->
         [err |-> FALSE, instructions |-> 1,
          accountKeys |-> <<"payer", "wallet">>, amount |-> 1000]
    [] signature = "sigFailed" ->
         [err |-> TRUE, instructions |-> 1,
          accountKeys |-> <<"payer", "sender", "wallet">>, amount |-> 1000]
    [] OTHER -> Undefined

Signatures == {"sigPaid", "sigSmall", "sigCase", "sigOther", "sigShort", "sigFailed", "sigMissing"}

\* verifySolanaTransaction; rpcOk: the RPC call resolves (otherwise it throws
\* and the catch answers `valid: false`)
verifySolanaTransaction(signature, expectedAmount, expectedRecipient, rpcOk) ==
  LET tx == Transaction(signature) IN
  IF ~rpcOk THEN [valid |-> FALSE, error |-> "Verification failed"]
  ELSE IF tx = Undefined THEN [valid |-> FALSE, error |-> "Transaction not found"]
  ELSE IF tx.err THEN [valid |-> FALSE, error |-> "Transaction failed"]
  ELSE IF /\ tx.instructions >= 1
          /\ Len(tx.accountKeys) >= 3
          /\ toLowerCase(tx.accountKeys[3]) = toLowerCase(expectedRecipient)
  THEN [valid |-> TRUE, sender |-> tx.accountKeys[2]]
  ELSE [valid |-> FALSE, error |-> "Transfer not found or invalid recipient"]

\* the request bodies: every field present, or one field missing
\* (paymentDbId 0, signature "", requestText "", priority "" are falsy)
SolanaBodies ==
  { [paymentDbId |-> id, signature |-> sig, requestText |-> ShortText, priority |-> p] :
      id \in 1..MaxPayments, sig \in PipelineSignatures, p \in PipelineTiers }
  \cup
  { [paymentDbId |-> 0, signature |-> "sigPaid", requestText |-> ShortText, priority |-> "standard"],
    [paymentDbId |-> 1, signature |-> "", requestText |-> ShortText, priority |-> "standard"],
    [paymentDbId |-> 1, signature |-> "sigPaid", requestText |-> Text(0, 0, 0), priority |-> "standard"],
    [paymentDbId |-> 1, signature |-> "sigPaid", requestText |-> ShortText, priority |-> ""] }

\* the request bodies of the token verifier on its own: the bodies above and
\* every transaction of the chain for every payment id
TokenBodies ==
  SolanaBodies
  \cup
  { [paymentDbId |-> id, signature |-> sig, requestText |-> ShortText, priority |-> p] :
      id \in 1..MaxPayments, sig \in Signatures, p \in PipelineTiers }

\* SolanaVerify without the return for a payment that is already verified
SolanaVerify_NoVerifiedCheck(c, body) ==
  LET payment == SelectPayment(body.paymentDbId) IN
  /\ FirstFree(c)
  /\ UNCHANGED <<payments, requests, issues, sessions, antfarm>>
  /\ Proceed(c,
       IF \/ body.paymentDbId = 0 \/ body.signature = ""
          \/ TextLength(body.requestText) = 0 \/ body.priority = ""
       THEN SolanaDone(400, "")
       ELSE IF walletAddress = "" THEN SolanaDone(500, "")
       ELSE IF payment = Undefined THEN SolanaDone(404, "")
       ELSE [pc |-> "solana_verifying",
             paymentDbId |-> body.paymentDbId,
             signature |-> body.signature,
             requestText |-> body.requestText,
             priority |-> body.priority,
             amount |-> payment.amount \div 100])

\* POST up to the call of verifySolanaTransaction: the field and wallet
\* checks, the SELECT and the two returns its result decides
SolanaVerify(c, body) ==
  LET payment == SelectPayment(body.paymentDbId) IN
  /\ FirstFree(c)
  /\ UNCHANGED <<payments, requests, issues, sessions, antfarm>>
  /\ Proceed(c,
       IF \/ body.paymentDbId = 0 \/ body.signature = ""
          \/ TextLength(body.requestText) = 0 \/ body.priority = ""
       THEN SolanaDone(400, "")
       ELSE IF walletAddress = "" THEN SolanaDone(500, "")
       ELSE IF payment = Undefined THEN SolanaDone(404, "")
       ELSE IF payment.status = "verified"
       THEN SolanaDone(200, "Payment already verified, skipping issue creation")
       ELSE [pc |-> "solana_verifying",
             paymentDbId |-> body.paymentDbId,
             signature |-> body.signature,
             requestText |-> body.requestText,
             priority |-> body.priority,
             amount |-> payment.amount \div 100])

\* the verification result arrives: an invalid one marks the payment failed
\* and answers 400, a valid one marks it verified with the signature as its
\* payment_id
SolanaTransactionVerified(c, rpcOk) ==
  LET call == calls[c]
      verification ==
        verifySolanaTransaction(call.signature, call.amount, walletAddress, rpcOk)
  IN
  /\ call.pc = "solana_verifying"
  /\ UNCHANGED <<requests, issues, sessions, antfarm>>
  /\ IF ~verification.valid
     THEN /\ payments' = [payments EXCEPT ![call.paymentDbId].status = "failed"]
          /\ Proceed(c, SolanaDone(400, "Solana verification failed"))
     ELSE /\ payments' = [payments EXCEPT ![call.paymentDbId].status = "verified",
                                          ![call.paymentDbId].verified_at = "now",
                                          ![call.paymentDbId].payment_id = <<call.signature>>]
          /\ Proceed(c,
                         [pc |-> "solana_creating", paymentDbId |-> call.paymentDbId,
                          requestText |-> call.requestText, priority |-> call.priority])

\* createIssueAndUpdateDb: the issue is created and linked to the payment
SolanaCreateIssue(c) ==
  /\ calls[c].pc = "solana_creating"
  /\ createIssue(c, "solana_inserting")
  /\ UNCHANGED <<requests, sessions, antfarm>>

\* octokit.rest.issues.create rejects: POST's catch answers 500
SolanaCreateIssueFails(c) ==
  /\ calls[c].pc = "solana_creating"
  /\ Proceed(c, SolanaDone(500, "Solana webhook error"))
  /\ UNCHANGED <<payments, requests, issues, sessions, antfarm>>

\* the request row is inserted and POST answers with the issue
SolanaInsertRequest(c) ==
  /\ calls[c].pc = "solana_inserting"
  /\ insertRequest(c)
  /\ Proceed(c, SolanaDone(200, "Solana payment verified and Issue created"))
  /\ UNCHANGED <<payments, issues, sessions, antfarm>>

----------------------------------------------------------------------------
(***************************************************************************)
(* Queue: GET /api/queue                                                   *)
(***************************************************************************)
\* calculateETA's default buildsPerHour
buildsPerHour == 10

\* ceil with a result that wraps around at 2
ceil_Wrapping(n, d) == ((n + d - 1) \div d) % 2

\* Math.ceil(n / d) for n >= 0 and d > 0
ceil(n, d) == (n + d - 1) \div d

\* calculateETA: '< 1 hour', '~1 hour', `~${hours} hours` or `~${days} days`
calculateETA(position, perHour) ==
  LET hours == ceil(position, perHour) IN
  IF hours < 1 THEN [about |-> "<", count |-> 1, unit |-> "hour"]
  ELSE IF hours = 1 THEN [about |-> "~", count |-> 1, unit |-> "hour"]
  ELSE IF hours < 24 THEN [about |-> "~", count |-> hours, unit |-> "hours"]
  ELSE [about |-> "~", count |-> ceil(hours, 24), unit |-> "days"]

\* fetchGitHubIssues: what the tracker answers listForRepo with, or [] when
\* the call throws
fetchGitHubIssues(reachable) == IF reachable THEN issues ELSE <<>>

\* ItemStatus that looks at `failed` before `ready-for-build`
ItemStatus_FailedFirst(labels) ==
  IF "completed" \in labels THEN "completed"
  ELSE IF "building" \in labels THEN "building"
  ELSE IF "failed" \in labels THEN "failed"
  ELSE "queued"

\* the status of an item, from its labels
ItemStatus(labels) ==
  IF "completed" \in labels THEN "completed"
  ELSE IF "building" \in labels THEN "building"
  ELSE IF "ready-for-build" \in labels THEN "queued"
  ELSE IF "failed" \in labels THEN "failed"
  ELSE "queued"

\* the priority of an item, from its labels
ItemPriority(labels) ==
  IF "priority:express" \in labels THEN "express"
  ELSE IF "priority" \in labels THEN "priority"
  ELSE "standard"

\* QueueItem with an ETA for every status
QueueItem_AlwaysEta(issue) ==
  LET status == ItemStatus(issue.labels)
      position == issue.number
  IN
  [ id |-> issue.number,
    title |-> issue.title,
    position |-> position,
    status |-> status,
    priority |-> ItemPriority(issue.labels),
    eta |-> calculateETA(position, buildsPerHour),
    progress |-> IF status = "building"
                 THEN [step |-> "Building feature...", percentage |-> 50]
                 ELSE Undefined ]

\* the item the map callback returns for an issue: position is the issue
\* number, and the ETA is computed from it
QueueItem(issue) ==
  LET status == ItemStatus(issue.labels)
      position == issue.number
  IN
  [ id |-> issue.number,
    title |-> issue.title,
    position |-> position,
    status |-> status,
    priority |-> ItemPriority(issue.labels),
    eta |-> IF status = "queued" THEN calculateETA(position, buildsPerHour) ELSE Undefined,
    progress |-> IF status = "building"
                 THEN [step |-> "Building feature...", percentage |-> 50]
                 ELSE Undefined ]

priorityOrder == [express |-> 0, priority |-> 1, standard |-> 2]

\* the comparator of items.sort without the difference of the priorities
compare_PositionOnly(a, b) == a.position - b.position

\* compare without the tie-break on position
compare_PriorityOnly(a, b) == priorityOrder[a.priority] - priorityOrder[b.priority]

\* the comparator of items.sort
compare(a, b) ==
  LET priorityDiff == priorityOrder[a.priority] - priorityOrder[b.priority] IN
  IF priorityDiff # 0 THEN priorityDiff ELSE a.position - b.position

\* Array.prototype.sort with compare: a stable sort, here by insertion of
\* each item behind the items that do not come after it
RECURSIVE sort(_)
sort(items) ==
  IF Len(items) = 0 THEN <<>>
  ELSE LET item == items[Len(items)]
           sorted == sort(SubSeq(items, 1, Len(items) - 1))
           k == Cardinality({ i \in DOMAIN sorted : compare(sorted[i], item) <= 0 })
       IN SubSeq(sorted, 1, k) \o <<item>> \o SubSeq(sorted, k + 1, Len(sorted))

\* recalculatePositions that leaves the positions as they are
recalculatePositions_Keep(items) == items

\* items.forEach((item, index) => { item.position = index + 1 })
recalculatePositions(items) ==
  [ i \in 1..Len(items) |-> [items[i] EXCEPT !.position = i] ]

\* CountStatus that tells only whether there is such an item
CountStatus_AtMostOne(items, status) ==
  IF \E i \in DOMAIN items : items[i].status = status THEN 1 ELSE 0

\* items.filter((item) => item.status === status).length
CountStatus(items, status) ==
  Cardinality({ i \in DOMAIN items : items[i].status = status })

\* GET: the items of the fetched issues, sorted and numbered, with the
\* counts by status
QueueGet(reachable) ==
  LET githubIssues == fetchGitHubIssues(reachable)
      items == recalculatePositions(
                 sort([ i \in 1..Len(githubIssues) |-> QueueItem(githubIssues[i]) ]))
  IN
  /\ response' = [ route |-> "queue", status |-> 200, log |-> "",
                   items |-> items,
                   total |-> Len(items),
                   queued |-> CountStatus(items, "queued"),
                   building |-> CountStatus(items, "building"),
                   completed |-> CountStatus(items, "completed"),
                   failed |-> CountStatus(items, "failed") ]
  /\ UNCHANGED <<payments, requests, issues, sessions, calls, antfarm>>

\* the positions and the rates calculateETA is applied to: around the steps
\* of the hours, and around the step from hours to days
EtaPositions == (0..25) \cup (228..242)

EtaRates == {1, 10, 12}

\* a call of calculateETA on its own; hours is the local of that name
Eta(position, perHour) ==
  /\ response' = [ route |-> "calculateETA", status |-> 0, log |-> "",
                   position |-> position, perHour |-> perHour,
                   hours |-> ceil(position, perHour),
                   eta |-> calculateETA(position, perHour) ]
  /\ UNCHANGED <<payments, requests, issues, sessions, calls, antfarm>>

\* the label sets of the issues of the tracker: those the dispatcher gives,
\* and those with the status labels the builder gives
QueueLabelSets ==
  { IssueLabels(t) : t \in Tiers }
  \cup { {"ready-for-build", "priority"}, {"building", "completed"},
         {"ready-for-build", "failed"}, {"failed"}, {} }

QueueNumbers == 10..(9 + MaxQueue)

\* the answers of the tracker: up to MaxQueue issues with different numbers,
\* in any order
TrackerAnswers ==
  UNION { { a \in [1..n -> [number : QueueNumbers, title : {ShortText}, labels : QueueLabelSets]] :
              \A i, j \in 1..n : i # j => a[i].number # a[j].number } :
          n \in 0..MaxQueue }

----------------------------------------------------------------------------
(***************************************************************************)
(* Sync script: apps/sync-github/src/sync-github-issues.ts                 *)
(*                                                                         *)
(* A run of the script (cron starts one every few minutes, so runs may     *)
(* overlap) takes a call slot.  It fetches the issues to send, and for     *)
(* each of them awaits the AntFarm workflow and then the labelling.        *)
(***************************************************************************)
PAID_LABEL == "paid"

CLAIMED_LABEL == "queued"

\* fetchPaidUnclaimedIssues: the open issues labelled paid (all pages) that
\* are not labelled queued
fetchPaidUnclaimedIssues ==
  SelectSeq(issues,
            LAMBDA issue : PAID_LABEL \in issue.labels /\ CLAIMED_LABEL \notin issue.labels)

\* the run goes on with the issues that are left, or ends ("Sync complete")
SyncLoop(todo) ==
  IF Len(todo) = 0 THEN IdleCall ELSE [pc |-> "sync_running", todo |-> todo]

\* main up to the for loop; when the tracker cannot be reached the fetch
\* throws and the process exits
SyncStart(c, reachable) ==
  /\ FirstFree(c)
  /\ calls' = IF reachable
              THEN [calls EXCEPT ![c] =
                      SyncLoop([k \in 1..Len(fetchPaidUnclaimedIssues) |->
                                  fetchPaidUnclaimedIssues[k].number])]
              ELSE calls
  /\ response' = NoResponse
  /\ UNCHANGED <<payments, requests, issues, sessions, antfarm>>

\* SyncRunWorkflow that has every issue labelled, whatever the exit code
SyncRunWorkflow_LabelsAlways(c, success) ==
  LET call == calls[c] IN
  /\ call.pc = "sync_running"
  /\ antfarm' = antfarm \cup {[issue |-> Head(call.todo), success |-> success]}
  /\ calls' = [calls EXCEPT ![c] = [pc |-> "sync_labelling", todo |-> call.todo]]
  /\ response' = NoResponse
  /\ UNCHANGED <<payments, requests, issues, sessions>>

\* runAntfarmWorkflow for the next issue: the child closes with code 0
\* (success) or with another code, a signal or an error; a failure is
\* logged and the loop goes on
SyncRunWorkflow(c, success) ==
  LET call == calls[c] IN
  /\ call.pc = "sync_running"
  /\ antfarm' = antfarm \cup {[issue |-> Head(call.todo), success |-> success]}
  /\ calls' = [calls EXCEPT ![c] =
                 IF success THEN [pc |-> "sync_labelling", todo |-> call.todo]
                 ELSE SyncLoop(Tail(call.todo))]
  /\ response' = NoResponse
  /\ UNCHANGED <<payments, requests, issues, sessions>>

\* addClaimedLabel: octokit.rest.issues.addLabels adds the label, or rejects
\* (labelled = FALSE), which is caught and logged
SyncAddLabel(c, labelled) ==
  LET call == calls[c] IN
  /\ call.pc = "sync_labelling"
  /\ issues' = IF labelled
               THEN [i \in 1..Len(issues) |->
                       IF issues[i].number = Head(call.todo)
                       THEN [issues[i] EXCEPT !.labels = @ \cup {CLAIMED_LABEL}]
                       ELSE issues[i]]
               ELSE issues
  /\ calls' = [calls EXCEPT ![c] = SyncLoop(Tail(call.todo))]
  /\ response' = NoResponse
  /\ UNCHANGED <<payments, requests, sessions, antfarm>>

\* the label sets of the issues the sync script finds: paid, paid and
\* already claimed, and the labels the dispatcher gives
SyncLabelSets ==
  { {PAID_LABEL}, {PAID_LABEL, CLAIMED_LABEL}, IssueLabels("express") }

\* the trackers the script runs on: issues 1..n
SyncTrackers ==
  UNION { { t \in [1..n -> [number : 1..n, title : {ShortText}, labels : SyncLabelSets]] :
              \A i \in 1..n : t[i].number = i } :
          n \in 0..MaxIssues }

----------------------------------------------------------------------------
(***************************************************************************)
(* Galaxy stars: lib/github.ts                                             *)
(***************************************************************************)
\* the files of a pull request: path, additions, deletions
PRFiles == [path : {"a.ts", "b.tsx"}, additions : {0, 10}, deletions : {0, 5, 10}]

\* the calls getStarsFromGitHub makes: transformPRToStar(pr, index) for a
\* fetched pull request
StarCalls ==
  UNION { { [pc |-> "star", index |-> 0,
             pr |-> [number |-> 42, changedFiles |-> n, files |-> files]] :
              files \in [1..n -> PRFiles] } :
          n \in 0..MaxFiles }

\* (a, b) => (b.additions + b.deletions) - (a.additions + a.deletions)
compareFiles(a, b) == (b.additions + b.deletions) - (a.additions + a.deletions)

\* Array.prototype.sort with compareFiles: a stable sort, returned as a new
\* sequence
RECURSIVE sortFiles(_)
sortFiles(files) ==
  IF Len(files) = 0 THEN <<>>
  ELSE LET file == files[Len(files)]
           sorted == sortFiles(SubSeq(files, 1, Len(files) - 1))
           k == Cardinality({ i \in DOMAIN sorted : compareFiles(sorted[i], file) <= 0 })
       IN SubSeq(sorted, 1, k) \o <<file>> \o SubSeq(sorted, k + 1, Len(sorted))

\* transformPRToStar that sorts pr.files itself instead of a copy of it
transformPRToStar_SortsInPlace(pr, index) ==
  [ pr |-> [pr EXCEPT !.files = sortFiles(pr.files)],
    star |-> [ id |-> index + 1,
               files |-> pr.changedFiles,
               filesChanged |-> sortFiles(pr.files) ] ]

\* transformPRToStar: the star it returns (its id, file count and sorted
\* files; the other fields are computed from other fields of the PR) and
\* the PR object as the call leaves it: [...pr.files] is sorted, not pr.files
transformPRToStar(pr, index) ==
  [ pr |-> pr,
    star |-> [ id |-> index + 1,
               files |-> pr.changedFiles,
               filesChanged |-> sortFiles(pr.files) ] ]

\* the call in slot c returns
Star(c) ==
  LET call == calls[c]
      result == transformPRToStar(call.pr, call.index)
  IN
  /\ call.pc = "star"
  /\ calls' = [calls EXCEPT ![c] = IdleCall]
  /\ response' = [ route |-> "transformPRToStar", status |-> 0, log |-> "",
                   pr |-> result.pr, star |-> result.star ]
  /\ UNCHANGED <<payments, requests, issues, sessions, antfarm>>

----------------------------------------------------------------------------
Init ==
  /\ payments = <<>>
  /\ requests = <<>>
  /\ issues = <<>>
  /\ sessions = <<>>
  /\ calls = [c \in 1..MaxCalls |-> IdleCall]
  /\ antfarm = {}
  /\ response = NoResponse

\* a submit call with any input
SubmitStep ==
  \E text \in SubmitTexts, priority \in SubmitPriorities, method \in SubmitMethods :
    IF SubmitError(text, priority, method) # NULL
    THEN Submit(text, priority, method, TRUE, TRUE)
    ELSE \E storeOk \in BOOLEAN, gatewayOk \in BOOLEAN :
           Submit(text, priority, method, storeOk, gatewayOk)

\* a submit call with a valid input
SubmitValidStep ==
  \E priority \in PipelineTiers, method \in Methods, storeOk \in BOOLEAN, gatewayOk \in BOOLEAN :
    Submit(ShortText, priority, method, storeOk, gatewayOk)

\* the events `checkout.session.completed` with payment_status `paid`
CompletedEvents ==
  { ev \in SessionEvents :
      ev.type = "checkout.session.completed" /\ ev.payment_status = "paid" }

StripeWebhookStep ==
  \E c \in 1..MaxCalls, signed \in BOOLEAN, ev \in SessionEvents \cup OtherEvents :
    StripeWebhook(c, signed, ev)

\* a signed delivery of `checkout.session.completed`, paid
StripeCompletedStep ==
  \E c \in 1..MaxCalls, ev \in CompletedEvents : StripeWebhook(c, TRUE, ev)

SolanaVerifyStep ==
  \E c \in 1..MaxCalls, body \in SolanaBodies : SolanaVerify(c, body)

\* the steps that follow the first one of a webhook or verify call
CallStep ==
  \/ \E c \in 1..MaxCalls : StripeMarkVerified(c)
  \/ \E c \in 1..MaxCalls : StripeCreateIssue(c)
  \/ \E c \in 1..MaxCalls : StripeCreateIssueFails(c)
  \/ \E c \in 1..MaxCalls : StripeInsertRequest(c)
  \/ \E c \in 1..MaxCalls, rpcOk \in BOOLEAN : SolanaTransactionVerified(c, rpcOk)
  \/ \E c \in 1..MaxCalls : SolanaCreateIssue(c)
  \/ \E c \in 1..MaxCalls : SolanaCreateIssueFails(c)
  \/ \E c \in 1..MaxCalls : SolanaInsertRequest(c)

\* the whole pipeline: submits, webhook deliveries and verify calls, interleaved
Next ==
  \/ SubmitValidStep
  \/ StripeWebhookStep
  \/ SolanaVerifyStep
  \/ CallStep

Spec == Init /\ [][Next]_vars

\* the submit route alone, over every input
SubmitNext == SubmitStep

SubmitSpec == Init /\ [][SubmitNext]_vars

\* getPricing applied to any value of the priority field, next to the submit
\* calls that use it
PriceStep == \E priority \in SubmitPriorities : Price(priority)

PricingNext ==
  \/ SubmitStep
  \/ PriceStep

PricingSpec == Init /\ [][PricingNext]_vars

\* the token verifier alone, over every transaction of the chain: submits
\* that choose the token method, and verify calls
TokenNext ==
  \/ \E priority \in PipelineTiers, storeOk \in BOOLEAN :
       Submit(ShortText, priority, "solana", storeOk, TRUE)
  \/ \E c \in 1..MaxCalls, body \in TokenBodies : SolanaVerify(c, body)
  \/ \E c \in 1..MaxCalls, rpcOk \in BOOLEAN : SolanaTransactionVerified(c, rpcOk)
  \/ \E c \in 1..MaxCalls : SolanaCreateIssue(c)
  \/ \E c \in 1..MaxCalls : SolanaCreateIssueFails(c)
  \/ \E c \in 1..MaxCalls : SolanaInsertRequest(c)

TokenSpec == Init /\ [][TokenNext]_vars

\* the card webhook alone, over every event: submits that choose the card
\* method, and webhook deliveries
CardNext ==
  \/ \E priority \in PipelineTiers, storeOk \in BOOLEAN :
       Submit(ShortText, priority, "stripe", storeOk, TRUE)
  \/ \E c \in 1..MaxCalls, signed \in BOOLEAN, ev \in SessionEvents \cup OtherEvents :
       StripeWebhook(c, signed, ev)
  \/ \E c \in 1..MaxCalls : StripeMarkVerified(c)
  \/ \E c \in 1..MaxCalls : StripeCreateIssue(c)
  \/ \E c \in 1..MaxCalls : StripeCreateIssueFails(c)
  \/ \E c \in 1..MaxCalls : StripeInsertRequest(c)

CardSpec == Init /\ [][CardNext]_vars

\* the request bodies of verify calls that present the paid transaction for
\* any payment, with any tier in the body
TierBodies ==
  [ paymentDbId : 1..MaxPayments, signature : {"sigPaid"},
    requestText : {ShortText}, priority : Tiers ]

\* both verification paths over every tier: submits of any tier, paid
\* `completed` events and verify calls
TierNext ==
  \/ \E priority \in Tiers, method \in Methods :
       Submit(ShortText, priority, method, TRUE, TRUE)
  \/ \E c \in 1..MaxCalls, ev \in CompletedEvents : StripeWebhook(c, TRUE, ev)
  \/ \E c \in 1..MaxCalls : StripeMarkVerified(c)
  \/ \E c \in 1..MaxCalls : StripeCreateIssue(c)
  \/ \E c \in 1..MaxCalls : StripeInsertRequest(c)
  \/ \E c \in 1..MaxCalls, body \in TierBodies : SolanaVerify(c, body)
  \/ \E c \in 1..MaxCalls : SolanaTransactionVerified(c, TRUE)
  \/ \E c \in 1..MaxCalls : SolanaCreateIssue(c)
  \/ \E c \in 1..MaxCalls : SolanaInsertRequest(c)

TierSpec == Init /\ [][TierNext]_vars

\* the queue route alone, on every answer of the tracker
QueueInit ==
  /\ issues \in TrackerAnswers
  /\ payments = <<>>
  /\ requests = <<>>
  /\ sessions = <<>>
  /\ calls = [c \in 1..MaxCalls |-> IdleCall]
  /\ antfarm = {}
  /\ response = NoResponse

QueueNext == \E reachable \in BOOLEAN : QueueGet(reachable)

QueueSpec == QueueInit /\ [][QueueNext]_vars

\* calculateETA alone, over positions and rates
EtaNext == \E position \in EtaPositions, perHour \in EtaRates : Eta(position, perHour)

EtaSpec == Init /\ [][EtaNext]_vars

\* the sync script alone: runs of it, possibly overlapping, on every tracker
SyncInit ==
  /\ issues \in SyncTrackers
  /\ payments = <<>>
  /\ requests = <<>>
  /\ sessions = <<>>
  /\ calls = [c \in 1..MaxCalls |-> IdleCall]
  /\ antfarm = {}
  /\ response = NoResponse

SyncNext ==
  \/ \E c \in 1..MaxCalls, reachable \in BOOLEAN : SyncStart(c, reachable)
  \/ \E c \in 1..MaxCalls, success \in BOOLEAN : SyncRunWorkflow(c, success)
  \/ \E c \in 1..MaxCalls, labelled \in BOOLEAN : SyncAddLabel(c, labelled)

SyncSpec == SyncInit /\ [][SyncNext]_vars

\* transformPRToStar alone, on every pull request
StarInit ==
  /\ calls \in { [c \in 1..MaxCalls |-> IF c = 1 THEN call ELSE IdleCall] : call \in StarCalls }
  /\ payments = <<>>
  /\ requests = <<>>
  /\ issues = <<>>
  /\ sessions = <<>>
  /\ antfarm = {}
  /\ response = NoResponse

StarNext == \E c \in 1..MaxCalls : Star(c)

StarSpec == StarInit /\ [][StarNext]_vars

\* the verification calls alone: no event other than `completed, paid`
VerifyNext ==
  \/ SubmitValidStep
  \/ StripeCompletedStep
  \/ SolanaVerifyStep
  \/ CallStep

VerifySpec == Init /\ [][VerifyNext]_vars

----------------------------------------------------------------------------
(***************************************************************************)
(* Properties.                                                             *)
(***************************************************************************)
\* the issues the dispatcher has created for payment p
IssuesFor(p) == { i \in DOMAIN issues : issues[i].paymentDbId = p }

\* the request rows inserted with an issue of payment p
RequestsFor(p) ==
  { r \in DOMAIN requests :
      \E i \in IssuesFor(p) : issues[i].number = requests[r].issue_number }

\* C1: whatever the interleaving of the verification calls on one payment
\* (deliveries of `checkout.session.completed` and token verify calls), the
\* dispatcher creates at most one issue for it.
C1_IssueCreatedAtMostOnce ==
  \A p \in DOMAIN payments : Cardinality(IssuesFor(p)) <= 1

\* C2: a payment whose status is expired or failed is not made verified by a
\* later verification attempt.
C2_StaleTransitionRejected ==
  [][\A p \in DOMAIN payments :
       payments[p].status \in {"expired", "failed"} => payments'[p].status # "verified"]_vars

\* C3: a delivery of `checkout.session.expired` leaves every verified payment
\* verified and changes no issue and no request row.
C3_ExpiredKeepsVerified ==
  [][\A c \in 1..MaxCalls, ev \in SessionEvents :
       (ev.type = "checkout.session.expired" /\ StripeWebhook(c, TRUE, ev))
       => /\ \A p \in DOMAIN payments :
               payments[p].status = "verified" => payments'[p].status = "verified"
          /\ UNCHANGED <<issues, requests>>]_vars

\* C4: in every state and for every payment row, verified_at is set if and
\* only if the status is verified.
C4_VerifiedAtIffVerified ==
  \A p \in DOMAIN payments :
    (payments[p].verified_at # NULL) <=> (payments[p].status = "verified")

\* C5: over its whole lifetime a payment gets at most one issue and at most
\* one request row.
C5_OneIssueOneRequest ==
  \A p \in DOMAIN payments :
    /\ Cardinality(IssuesFor(p)) <= 1
    /\ Cardinality(RequestsFor(p)) <= 1

\* C6: a delivery of `checkout.session.completed`, paid, for a payment whose
\* status is verified answers 200, ends the call without creating an issue
\* and changes no payment and no request row.
C6_VerifiedRedeliveryIsNoOp ==
  [][\A c \in 1..MaxCalls, ev \in CompletedEvents :
       ( /\ EventPaymentDbId(ev) \in DOMAIN payments
         /\ payments[EventPaymentDbId(ev)].status = "verified"
         /\ StripeWebhook(c, TRUE, ev) )
       => /\ response'.status = 200
          /\ UNCHANGED <<payments, requests, issues, calls>>]_vars

\* C6 happens: a redelivery has been answered as already verified while the
\* payment has its one issue and its one request row.
C6_Witness ==
  /\ response.route = "stripe-webhook"
  /\ response.status = 200
  /\ response.log = "Payment already verified, skipping issue creation"
  /\ \E p \in DOMAIN payments :
       /\ payments[p].status = "verified"
       /\ Cardinality(IssuesFor(p)) = 1
       /\ Cardinality(RequestsFor(p)) = 1

\* C7: a webhook call whose signature does not validate is answered 401,
\* ends there, and changes no payment row, no request row and no issue,
\* whatever event its payload carries.
C7_InvalidSignatureRejected ==
  [][\A c \in 1..MaxCalls, ev \in SessionEvents \cup OtherEvents :
       StripeWebhook(c, FALSE, ev)
       => /\ response'.status = 401
          /\ UNCHANGED <<payments, requests, issues, sessions, calls>>]_vars

\* C7 happens: a call has been answered 401 while a pending payment with an
\* open session was there to be changed.
C7_Witness ==
  /\ response.route = "stripe-webhook"
  /\ response.status = 401
  /\ \E k \in DOMAIN sessions :
       /\ sessions[k].status = "open"
       /\ payments[parseInt(sessions[k].metadata.paymentDbId)].status = "pending"

\* C8: a delivery of `checkout.session.completed`, paid, that references a
\* payment id without a row is answered 404, ends there, and changes no row
\* and creates no issue.
C8_UnknownPaymentNotFound ==
  [][\A c \in 1..MaxCalls, ev \in CompletedEvents :
       (EventPaymentDbId(ev) \notin DOMAIN payments /\ StripeWebhook(c, TRUE, ev))
       => /\ response'.status = 404
          /\ UNCHANGED <<payments, requests, issues, calls>>]_vars

\* C8 happens: a call has been answered 404 while the table held payments.
C8_Witness ==
  /\ response.route = "stripe-webhook"
  /\ response.status = 404
  /\ Len(payments) > 0

\* the inputs C9 names: text empty or whitespace only, text longer than 120
\* characters, priority or payment method outside the enumerations
C9_Invalid(text, priority, method) ==
  \/ text.body = 0
  \/ text.lead + text.body + text.trail > 120
  \/ priority \notin {"standard", "priority", "express"}
  \/ method \notin {"stripe", "solana"}

\* C9: submit answers 400 to every such input, with no payment row inserted
\* and no checkout session created.
C9_InvalidSubmitRejected ==
  [][\A text \in SubmitTexts, priority \in SubmitPriorities, method \in SubmitMethods,
        storeOk \in BOOLEAN, gatewayOk \in BOOLEAN :
       (C9_Invalid(text, priority, method) /\ Submit(text, priority, method, storeOk, gatewayOk))
       => /\ response'.status = 400
          /\ UNCHANGED <<payments, sessions>>]_vars

\* C9 happens: a submit has been answered 400 after others were accepted.
C9_Witness ==
  /\ response.route = "submit"
  /\ response.status = 400
  /\ Len(payments) > 0

\* C10: a submit that succeeds has inserted exactly one payment row, pending,
\* with the requested method and tier and with the price of the tier as its
\* amount.
C10_SubmitInsertsPricedRow ==
  [][\A text \in SubmitTexts, priority \in SubmitPriorities, method \in SubmitMethods,
        storeOk \in BOOLEAN, gatewayOk \in BOOLEAN :
       (Submit(text, priority, method, storeOk, gatewayOk) /\ response'.status = 200)
       => /\ Len(payments') = Len(payments) + 1
          /\ SubSeq(payments', 1, Len(payments)) = payments
          /\ LET row == payments'[Len(payments')] IN
             /\ row.status = "pending"
             /\ row.payment_method = method
             /\ row.priority = priority
             /\ row.amount = getPricing(priority)]_vars

\* C11: the amount charged for a tier is the price of the tier in cents,
\* converted once: every stored payment amount and every checkout unit_amount
\* is 100, 500 or 1000 for standard, priority or express.
C11_ChargedAmountInCentsOnce ==
  /\ \A p \in DOMAIN payments :
       payments[p].amount = PRICING[payments[p].priority] * 100
  /\ \A k \in DOMAIN sessions :
       sessions[k].unit_amount = PRICING[sessions[k].metadata.priority] * 100

\* C12: for each of the three tiers the price is positive, and the price of
\* a tier is above the price of every tier of lower rank.
C12_PricePositiveIncreasing ==
  (response.route = "getPricing" /\ response.priority \in Tiers)
  => /\ response.amount > 0
     /\ PRICING[response.priority] > 0
     /\ \A t \in Tiers :
          <<t, response.priority>> \in {<<"standard", "priority">>, <<"priority", "express">>}
          => /\ getPricing(t) < response.amount
             /\ PRICING[t] < PRICING[response.priority]

\* C12 happens: the price of the highest tier has been computed.
C12_Witness ==
  /\ response.route = "getPricing"
  /\ response.priority = "express"
  /\ response.amount = 1000

\* C13: the price function fails for every input that is not one of the
\* three tiers, and returns no amount for it.
C13_InvalidTierFails ==
  (response.route = "getPricing" /\ response.priority \notin Tiers) => response.threw

\* C14: when the creation of the issue fails after the payment was marked
\* verified, the call answers with the error (500) and changes no payment
\* row: a verified payment stays verified, on the card and on the token path.
C14_DispatchFailureKeepsVerified ==
  [][\A c \in 1..MaxCalls :
       (StripeCreateIssueFails(c) \/ SolanaCreateIssueFails(c))
       => /\ response'.status = 500
          /\ payments' = payments
          /\ UNCHANGED <<requests, issues>>]_vars

\* C14 happens: a webhook call has answered 500 and its payment is verified
\* and has no issue.
C14_Witness ==
  /\ response.route = "stripe-webhook"
  /\ response.status = 500
  /\ \E p \in DOMAIN payments :
       /\ payments[p].status = "verified"
       /\ IssuesFor(p) = {}
       /\ \A c \in 1..MaxCalls : Free(c)

\* C15: when a verified payment has no issue and no call is working on it,
\* a redelivery of its `checkout.session.completed` event goes on to create
\* the missing issue instead of ending.
C15_RetryCreatesMissingIssue ==
  [][\A c \in 1..MaxCalls, ev \in CompletedEvents :
       LET p == EventPaymentDbId(ev) IN
       ( /\ p \in DOMAIN payments
         /\ payments[p].status = "verified"
         /\ IssuesFor(p) = {}
         /\ \A d \in 1..MaxCalls : Free(d) \/ calls[d].paymentDbId # p
         /\ StripeWebhook(c, TRUE, ev) )
       => calls'[c].pc # "idle"]_vars

\* C16: the token verifier accepts a transaction (marks the payment verified
\* and goes on to create the issue) only if its destination is the
\* configured receiving address and its amount is the amount of the payment
\* in the unit of the token.
C16_TokenTransferMatchesPayment ==
  [][\A c \in 1..MaxCalls, rpcOk \in BOOLEAN :
       (SolanaTransactionVerified(c, rpcOk) /\ calls'[c].pc = "solana_creating")
       => LET tx == Transaction(calls[c].signature) IN
          /\ tx # Undefined
          /\ Len(tx.accountKeys) >= 3
          /\ tx.accountKeys[3] = walletAddress
          /\ tx.amount = payments[calls[c].paymentDbId].amount \div 100]_vars

\* C17: for every tier T, an issue that carries the labels the dispatcher
\* gives to a payment of tier T is listed by the queue with priority T.
C17_DispatcherLabelResolved ==
  response.route = "queue"
  => \A k \in DOMAIN response.items, i \in DOMAIN issues, t \in Tiers :
       (issues[i].number = response.items[k].id /\ issues[i].labels = IssueLabels(t))
       => response.items[k].priority = t

C19_EtaFromFinalPosition ==
  response.route = "queue"
  => \A k \in DOMAIN response.items :
       response.items[k].status = "queued"
       => response.items[k].eta = calculateETA(k, buildsPerHour)

\* C20: the item at index i of a queue response has position i + 1, so the
\* positions of n items are 1..n, each once.
C20_PositionsAreIndexes ==
  response.route = "queue"
  => /\ \A k \in DOMAIN response.items : response.items[k].position = k
     /\ { response.items[k].position : k \in DOMAIN response.items }
          = 1..Len(response.items)

\* C20 happens: a response lists several items in another order than that
\* of their issue numbers.
C20_Witness ==
  /\ response.route = "queue"
  /\ Len(response.items) >= 2
  /\ response.items[1].id > response.items[2].id

\* C21: the status of an item follows from the labels of its issue by the
\* precedence completed, building, ready-for-build (queued), failed, and is
\* queued when the issue has none of these labels.
C21_StatusPrecedence ==
  response.route = "queue"
  => \A k \in DOMAIN response.items, i \in DOMAIN issues :
       issues[i].number = response.items[k].id
       => LET labels == issues[i].labels
              status == response.items[k].status
          IN
          CASE "completed" \in labels -> status = "completed"
            [] "building" \in labels -> status = "building"
            [] "ready-for-build" \in labels -> status = "queued"
            [] "failed" \in labels -> status = "failed"
            [] OTHER -> status = "queued"

\* C21 happens: a response lists an issue labelled building and completed
\* as completed and one labelled ready-for-build and failed as queued.
C21_Witness ==
  /\ response.route = "queue"
  /\ \E k \in DOMAIN response.items, i \in DOMAIN issues :
       /\ issues[i].number = response.items[k].id
       /\ issues[i].labels = {"building", "completed"}
       /\ response.items[k].status = "completed"
  /\ \E k \in DOMAIN response.items, i \in DOMAIN issues :
       /\ issues[i].number = response.items[k].id
       /\ issues[i].labels = {"ready-for-build", "failed"}
       /\ response.items[k].status = "queued"

\* C22: an item of a queue response has an ETA if and only if its status is
\* queued.
C22_EtaIffQueued ==
  response.route = "queue"
  => \A k \in DOMAIN response.items :
       (response.items[k].eta # Undefined) <=> (response.items[k].status = "queued")

\* C22 happens: a response lists a queued item with an ETA next to a
\* completed and a failed item without one.
C22_Witness ==
  /\ response.route = "queue"
  /\ \E k \in DOMAIN response.items :
       response.items[k].status = "queued" /\ response.items[k].eta # Undefined
  /\ \E k \in DOMAIN response.items :
       response.items[k].status = "completed" /\ response.items[k].eta = Undefined
  /\ \E k \in DOMAIN response.items :
       response.items[k].status = "failed" /\ response.items[k].eta = Undefined

\* C23: for a fixed buildsPerHour the hours calculateETA derives from a
\* position are at least the hours it derives from every lower position.
C23_EtaHoursMonotone ==
  response.route = "calculateETA"
  => \A p \in EtaPositions :
       p <= response.position => ceil(p, response.perHour) <= response.hours

\* C23 happens: the hours of a position behind a step of the hours have been
\* computed (position 11 at 10 builds per hour: 2 hours).
C23_Witness ==
  /\ response.route = "calculateETA"
  /\ response.position = 11
  /\ response.perHour = buildsPerHour
  /\ response.hours = 2
  /\ response.eta = [about |-> "~", count |-> 2, unit |-> "hours"]

\* C24: an issue gets the claimed label only when an AntFarm run for it has
\* exited successfully; a run that fails changes no label, and its issue,
\* as long as it is unclaimed, is among the issues the next run fetches.
C24_ClaimedOnlyAfterSuccess ==
  [][/\ \A i \in DOMAIN issues :
          (CLAIMED_LABEL \notin issues[i].labels /\ CLAIMED_LABEL \in issues'[i].labels)
          => [issue |-> issues[i].number, success |-> TRUE] \in antfarm
     /\ \A c \in 1..MaxCalls :
          SyncRunWorkflow(c, FALSE)
          => /\ issues' = issues
             /\ \A i \in DOMAIN issues :
                  (issues[i].number = Head(calls[c].todo) /\ CLAIMED_LABEL \notin issues[i].labels)
                  => \E k \in DOMAIN fetchPaidUnclaimedIssues' :
                       fetchPaidUnclaimedIssues'[k].number = issues[i].number]_vars

\* C24 happens: the run for an issue has failed, the issue has no claimed
\* label, and a later run, the only one in flight, is about to send it.
C24_Witness ==
  \E c \in 1..MaxCalls, i \in DOMAIN issues :
    /\ calls[c].pc = "sync_running"
    /\ Head(calls[c].todo) = issues[i].number
    /\ \A d \in 1..MaxCalls : d # c => Free(d)
    /\ antfarm = {[issue |-> issues[i].number, success |-> FALSE]}
    /\ CLAIMED_LABEL \notin issues[i].labels

\* C25: every issue the dispatcher has created for a verified payment is
\* among the issues the sync script fetches (it carries the paid label).
C25_DispatchedIssuesArePaid ==
  \A i \in DOMAIN issues :
    /\ PAID_LABEL \in issues[i].labels
    /\ \E k \in DOMAIN fetchPaidUnclaimedIssues :
         fetchPaidUnclaimedIssues[k].number = issues[i].number

\* C26: every valid submit call, alone or among others, is answered 200 and
\* adds one payment row with an id of its own, leaving the rows of the other
\* submissions as they are (the payment gateway being available).
C26_EverySubmitSucceeds ==
  [][\A text \in SubmitTexts, priority \in SubmitPriorities, method \in SubmitMethods,
        storeOk \in BOOLEAN :
       (SubmitError(text, priority, method) = NULL
          /\ Submit(text, priority, method, storeOk, TRUE))
       => /\ response'.status = 200
          /\ Len(payments') = Len(payments) + 1
          /\ \A p \in DOMAIN payments : payments'[p] = payments[p]]_vars

\* C27: filesChanged holds the files of the PR, each as often as the PR
\* does, by additions + deletions descending, and the files of the PR
\* object are as they were before the call.
C27_FilesSortedCopy ==
  [][\A c \in 1..MaxCalls :
       Star(c)
       => LET files == calls[c].pr.files
              filesChanged == response'.star.filesChanged
          IN
          /\ response'.pr.files = files
          /\ Len(filesChanged) = Len(files)
          /\ \A f \in PRFiles :
               Cardinality({ i \in DOMAIN filesChanged : filesChanged[i] = f })
                 = Cardinality({ i \in DOMAIN files : files[i] = f })
          /\ \A i, j \in DOMAIN filesChanged :
               i < j => filesChanged[i].additions + filesChanged[i].deletions
                          >= filesChanged[j].additions + filesChanged[j].deletions]_vars

\* C27 happens: a PR whose files were not in descending order has been
\* transformed, with a tie among its files.
C27_Witness ==
  /\ response.route = "transformPRToStar"
  /\ Len(response.pr.files) = 3
  /\ response.pr.files # response.star.filesChanged
  /\ response.pr.files[1].additions + response.pr.files[1].deletions = 10
  /\ response.pr.files[2].additions + response.pr.files[2].deletions = 20
  /\ response.pr.files[3].additions + response.pr.files[3].deletions = 10

C29_NotFoundKeepsStatus ==
  [][\A c \in 1..MaxCalls, rpcOk \in BOOLEAN :
       ( /\ SolanaTransactionVerified(c, rpcOk)
         /\ LET tx == Transaction(calls[c].signature) IN
            \/ ~rpcOk
            \/ tx = Undefined
            \/ (tx # Undefined /\ tx.err) )
       => /\ response'.status >= 400
          /\ payments'[calls[c].paymentDbId].status
               = payments[calls[c].paymentDbId].status]_vars

\* C30: `payment_intent.payment_failed` leaves the status of a payment that
\* is verified or expired as it is, and `checkout.session.expired` leaves the
\* status of a payment that is failed or expired as it is.
C30_TerminalStatusKept ==
  [][\A c \in 1..MaxCalls, ev \in SessionEvents \cup OtherEvents :
       StripeWebhook(c, TRUE, ev)
       => \A p \in DOMAIN payments :
            ( \/ /\ ev.type = "payment_intent.payment_failed"
                 /\ payments[p].status \in {"verified", "expired"}
              \/ /\ ev.type = "checkout.session.expired"
                 /\ payments[p].status \in {"failed", "expired"} )
            => payments'[p].status = payments[p].status]_vars

\* C31: a signed event of a type the switch has no case for, and a signed
\* `checkout.session.completed` whose payment_status is not paid, is answered
\* 200, ends the call, and changes no payment row, no request row and no
\* issue.
C31_IgnoredEventsChangeNothing ==
  [][\A c \in 1..MaxCalls, ev \in SessionEvents \cup OtherEvents :
       ( /\ IF ev.type = "checkout.session.completed"
            THEN ev.payment_status # "paid"
            ELSE ev.type \notin {"checkout.session.expired", "payment_intent.payment_failed"}
         /\ StripeWebhook(c, TRUE, ev) )
       => /\ response'.status = 200
          /\ UNCHANGED <<payments, requests, issues, calls>>]_vars

\* C31 happens: an event of an unhandled type has been answered while a
\* payment is pending.
C31_Witness ==
  /\ response.route = "stripe-webhook"
  /\ response.status = 200
  /\ response.log = "Unhandled event type"
  /\ \E p \in DOMAIN payments : payments[p].status = "pending"

\* C32: an issue is created only in a step in which its payment has status
\* verified, and in every state each payment that has an issue number has
\* status verified.
C32_IssueOnlyForVerified ==
  /\ [](\A p \in DOMAIN payments :
         payments[p].issue_number # NoNumber => payments[p].status = "verified")
  /\ [][\A c \in 1..MaxCalls :
         (StripeCreateIssue(c) \/ SolanaCreateIssue(c))
         => payments[calls[c].paymentDbId].status = "verified"]_vars

\* C33: the issue created for a payment carries the priority label of the
\* tier stored on the payment row, and its request row has that tier.
C33_IssueTierIsPaymentTier ==
  \A i \in DOMAIN issues :
    LET p == issues[i].paymentDbId IN
    p \in DOMAIN payments
    => /\ issues[i].labels = IssueLabels(payments[p].priority)
       /\ \A r \in DOMAIN requests :
            requests[r].issue_number = issues[i].number
            => requests[r].priority = payments[p].priority

\* C34: no two payments are verified by the same transaction: two verified
\* payment rows never hold the same signature as their payment_id.
C34_SignatureVerifiesOnePayment ==
  \A p, q \in DOMAIN payments :
    ( /\ p # q
      /\ payments[p].status = "verified"
      /\ payments[q].status = "verified"
      /\ \E signature \in Signatures : payments[p].payment_id = <<signature>> )
    => payments[q].payment_id # payments[p].payment_id

\* C35: a run of the sync script that starts when no other run is in flight
\* does not take up (and so does not send to AntFarm) an issue for which an
\* AntFarm run has succeeded before.
C35_SucceededIssueNotSentAgain ==
  [][\A c \in 1..MaxCalls :
       ( /\ \A d \in 1..MaxCalls : Free(d)
         /\ SyncStart(c, TRUE) )
       => \A k \in DOMAIN fetchPaidUnclaimedIssues :
            [issue |-> fetchPaidUnclaimedIssues[k].number, success |-> TRUE] \notin antfarm]_vars

\* C36: the items of a queue response are the same, in the same order and
\* with the same ids, positions, statuses and priorities, for every order in
\* which the tracker may have returned the same issues.
C36_QueueIgnoresFetchOrder ==
  [][QueueGet(TRUE)
     => \A f \in Permutations(DOMAIN issues) :
          recalculatePositions(sort([ i \in DOMAIN issues |-> QueueItem(issues[f[i]]) ]))
            = response'.items]_vars

\* C36 happens: a response lists three items, two of them of the same
\* priority, that the tracker returned in the reverse of the order they are
\* listed in.
C36_Witness ==
  /\ response.route = "queue"
  /\ Len(response.items) = 3
  /\ Len(issues) = 3
  /\ \A k \in 1..3 : response.items[k].id = issues[4 - k].number
  /\ response.items[1].priority = response.items[2].priority

\* C37: a queue call made while the tracker cannot be reached is answered
\* with an error status.
C37_UnreachableTrackerIsError ==
  [][(QueueGet(FALSE) /\ ~QueueGet(TRUE)) => response'.status >= 400]_vars

\* C40: in a queue response the counts of queued, building, completed and
\* failed items add up to total, and total is the number of items.
C40_CountsPartitionItems ==
  response.route = "queue"
  => /\ response.total = Len(response.items)
     /\ response.queued + response.building + response.completed + response.failed
          = response.total

\* C40 happens: a response lists three items, two of one status and one of
\* another.
C40_Witness ==
  /\ response.route = "queue"
  /\ response.total = 3
  /\ response.queued = 2
  /\ response.failed = 1

\* C38: a submit call that is answered with an error status leaves the
\* payments table as it was.
C38_FailedSubmitLeavesNoRow ==
  [][\A text \in SubmitTexts, priority \in SubmitPriorities, method \in SubmitMethods,
        storeOk \in BOOLEAN, gatewayOk \in BOOLEAN :
       (Submit(text, priority, method, storeOk, gatewayOk) /\ response'.status >= 400)
       => payments' = payments]_vars

\* C39: a step of a webhook or verify call changes the status of at most one
\* payment row, which is the row of the call's payment (for the first step
\* of a webhook call: the row its event refers to), and changes the amount
\* and the tier of no row.
C39_OneRowPerCall ==
  [][\A p \in DOMAIN payments :
       /\ payments'[p].amount = payments[p].amount
       /\ payments'[p].priority = payments[p].priority
       /\ payments'[p].status # payments[p].status
          => /\ \A q \in DOMAIN payments :
                  payments'[q].status # payments[q].status => q = p
             /\ \/ \E c \in 1..MaxCalls :
                     /\ calls[c].pc \in {"stripe_verifying", "solana_verifying"}
                     /\ calls[c].paymentDbId = p
                     /\ calls'[c] # calls[c]
                \/ \E c \in 1..MaxCalls, ev \in SessionEvents \cup OtherEvents :
                     /\ IF ev.type = "payment_intent.payment_failed"
                        THEN Like(payments[p].payment_id, ev.id)
                        ELSE ev.type = "checkout.session.expired" /\ EventPaymentDbId(ev) = p
                     /\ StripeWebhook(c, TRUE, ev)]_vars

\* C39 happens: of two payments one has been verified, and has its issue,
\* and the other has expired.
C39_Witness ==
  /\ Len(payments) = 2
  /\ \E p, q \in DOMAIN payments :
       /\ payments[p].status = "verified"
       /\ payments[p].issue_number # NoNumber
       /\ payments[q].status = "expired"

====
